---- MODULE Spec2Model ----
(***************************************************************************)
(* Model of the PlantVisualization component                               *)
(* (app/components/plant-visualization.tsx) and of the operational scripts *)
(* (scripts/health-check.js, and checkDataRetention and                    *)
(* CanaryMetricsChecker of scripts/check-data-retention.js).  Each         *)
(* program has its own variables and its own specification; the variables *)
(* of the other programs do not change in it.                              *)
(*                                                                         *)
(* The component is a function of its props.  Numbers are JavaScript       *)
(* numbers; the model keeps them exact in fixed point:                     *)
(*   progressPercentage  in units of 0.001     (24900   = 24.9)            *)
(*   plantHeight         in units of 0.0001    (50000   = 5)               *)
(*   stemHeight          in units of 0.00001   (1000000 = 10)              *)
(* so that  x * 0.8  is  8 * x  one decimal further right, and  x * 0.6    *)
(* is  6 * x  one decimal further right again.  NaN and the infinities     *)
(* are outside the model.                                                  *)
(***************************************************************************)
EXTENDS Integers, FiniteSets, Sequences, TLC

\* Range of the progressPercentage values drawn: every tenth of a percent
\* from MaxBelowZero tenths under 0 up to MaxPct tenths.
MaxBelowZero == 50
MaxPct == 1500

Undefined == "undefined"

\* The values drawn, in units of 0.001: the tenths of the range, and every
\* thousandth from 20.8 to 20.9.
Percentages == {100 * k : k \in (0 - MaxBelowZero)..MaxPct} \cup (20800..20900)
PlantTypes == {Undefined, "sunflower", "rose", "tulip", "daisy", "cactus"}
Sizes == {Undefined, "small", "medium", "large"}

VARIABLES
    props,  \* the props the parent passed (before defaults are applied)
    pc,     \* "mounted": not rendered yet; "rendered": view is the output
    view    \* what the last call of the component computed and returned

plantVars == <<props, pc, view>>

\* HealthChecker.runAllChecks (scripts/health-check.js).
VARIABLES
    hcPc,       \* where runAllChecks is: "idle", "loop", "summary", "printed",
                \* "exited" (process.exit was called) or "returned"
    hcIndex,    \* position in healthChecks of the check the loop is at
    hcResults,  \* the results object: passed, failed, total, checks
    hcApi,      \* the results array of the running checkApiEndpoints
    hcExit      \* <<code>> once process.exit(code) was called, else << >>

healthVars == <<hcPc, hcIndex, hcResults, hcApi, hcExit>>

\* checkDataRetention (scripts/check-data-retention.js).
VARIABLES
    drPc,           \* where checkDataRetention is: "idle", the query it is at
                    \* ("sessions", "deletedUsers", "goals", "children"),
                    \* "report", or "exited" (process.exit was called)
    drDb,           \* the rows of the four tables queried
    drIssues,       \* the issues array
    drCaught,       \* the catch block was entered
    drDisconnected, \* prisma.$disconnect() was called
    drExit          \* <<code>> once process.exit(code) was called, else << >>

retentionVars == <<drPc, drDb, drIssues, drCaught, drDisconnected, drExit>>

\* CanaryMetricsChecker (scripts/check-data-retention.js).
VARIABLES
    cmPc,       \* "idle", "collected" (inside checkMetrics), "evaluated"
                \* (evaluateMetrics was called on its own), "exited", "returned"
    cmMetrics,  \* this.metrics
    cmResult,   \* << >>, or <<results>> for what evaluateMetrics returned
    cmExit      \* <<code>> once process.exit(code) was called, else << >>

canaryVars == <<cmPc, cmMetrics, cmResult, cmExit>>

vars == <<plantVars, healthVars, retentionVars, canaryVars>>

\* The variables of the other programs, for each program.
notPlantVars == <<healthVars, retentionVars, canaryVars>>

notHealthVars == <<plantVars, retentionVars, canaryVars>>

notRetentionVars == <<plantVars, healthVars, canaryVars>>

notCanaryVars == <<plantVars, healthVars, retentionVars>>

Max(a, b) == IF a >= b THEN a ELSE b

\* Math.floor(x / d) for an integer numerator and a positive divisor.
Floor(x, d) == x \div d

\* Math.round(x) for x in units of 0.001: the nearest integer, halves
\* towards +Infinity.
Round(x) == (x + 500) \div 1000

\* Faulty variant of Defaults: plantType defaults to 'rose'.
Defaults_rose(raw) ==
    [progressPercentage |-> raw.progressPercentage,
     plantType |-> IF raw.plantType = Undefined THEN "rose" ELSE raw.plantType,
     size |-> IF raw.size = Undefined THEN "medium" ELSE raw.size]

\* Destructuring defaults of the parameter list.
Defaults(raw) ==
    [progressPercentage |-> raw.progressPercentage,
     plantType |-> IF raw.plantType = Undefined THEN "sunflower" ELSE raw.plantType,
     size |-> IF raw.size = Undefined THEN "medium" ELSE raw.size]

\* Faulty variants of getStage: the sprout band closed at 25; the returns of
\* the medium and large bands swapped; a seed band that starts at 0.
getStage_closedSprout(percentage) ==
    IF percentage < 10000 THEN "seed"
    ELSE IF percentage <= 25000 THEN "sprout"
    ELSE IF percentage < 50000 THEN "small"
    ELSE IF percentage < 75000 THEN "medium"
    ELSE IF percentage < 95000 THEN "large"
    ELSE IF percentage < 100000 THEN "flowering"
    ELSE "fruiting"

getStage_swapped(percentage) ==
    IF percentage < 10000 THEN "seed"
    ELSE IF percentage < 25000 THEN "sprout"
    ELSE IF percentage < 50000 THEN "small"
    ELSE IF percentage < 75000 THEN "large"
    ELSE IF percentage < 95000 THEN "medium"
    ELSE IF percentage < 100000 THEN "flowering"
    ELSE "fruiting"

getStage_seedFromZero(percentage) ==
    IF 0 <= percentage /\ percentage < 10000 THEN "seed"
    ELSE IF percentage < 25000 THEN "sprout"
    ELSE IF percentage < 50000 THEN "small"
    ELSE IF percentage < 75000 THEN "medium"
    ELSE IF percentage < 95000 THEN "large"
    ELSE IF percentage < 100000 THEN "flowering"
    ELSE "fruiting"

getStage(percentage) ==
    IF percentage < 10000 THEN "seed"
    ELSE IF percentage < 25000 THEN "sprout"
    ELSE IF percentage < 50000 THEN "small"
    ELSE IF percentage < 75000 THEN "medium"
    ELSE IF percentage < 95000 THEN "large"
    ELSE IF percentage < 100000 THEN "flowering"
    ELSE "fruiting"

\* The closures below read the props of the enclosing call; p is that scope.
getSizeClasses(p) ==
    CASE p.size = "small" -> "w-32 h-32"
      [] p.size = "large" -> "w-96 h-96"
      [] OTHER -> "w-64 h-64"

\* Faulty variants of getPlantHeight: without the minimum; with a height
\* that depends on the plant type; and with a minimum of 25.
getPlantHeight_highFloor(p) ==
    LET baseHeight == p.progressPercentage * 8
    IN  Max(baseHeight, 250000)

getPlantHeight_noFloor(p) == p.progressPercentage * 8

getPlantHeight_byType(p) ==
    LET baseHeight == p.progressPercentage * (IF p.plantType = "sunflower" THEN 9 ELSE 8)
    IN  Max(baseHeight, 50000)

getPlantHeight(p) ==
    LET baseHeight == p.progressPercentage * 8
    IN  Max(baseHeight, 50000)

getPlantColor(p) ==
    CASE p.plantType = "rose" -> "#ff6b9d"
      [] p.plantType = "tulip" -> "#c44569"
      [] p.plantType = "daisy" -> "#f8b500"
      [] OTHER -> "#ffd700"

\* Faulty variant of stemHeight: without the minimum.
stemHeight_noFloor(p) == getPlantHeight(p) * 6

stemHeight(p) == Max(getPlantHeight(p) * 6, 1000000)

\* Faulty variant of leafCount: capped at the 5 leaves of 100%.
leafCount_capped(p) ==
    IF p.progressPercentage >= 100000 THEN 5 ELSE Floor(p.progressPercentage, 20000)

leafCount(p) == Floor(p.progressPercentage, 20000)

\* Array.from({ length: n }, ...): the indices 0..n-1, none when n <= 0.
ArrayFrom(n) == 0..(n - 1)

\* The conditions that gate the elements of the returned tree.
stemShown(stage) == stage # "seed"

flowerCenterShown(stage) == stage = "flowering" \/ stage = "fruiting"

\* Faulty variant of petalsShown: petals in the flowering stage only.
petalsShown_floweringOnly(stage) == stage = "flowering"

petalsShown(stage) == stage = "flowering" \/ stage = "fruiting"

\* The rotation of each petal, i * 45 degrees for the 8 indices.
petalAngles == {i * 45 : i \in ArrayFrom(8)}

\* Faulty variant of fruitShown: gated like the flower centre.
fruitShown_withFlower(stage) == stage = "flowering" \/ stage = "fruiting"

fruitShown(stage) == stage = "fruiting"

seedShown(stage) == stage = "seed"

sproutShown(stage) == stage = "sprout"

sparklesShown(p) == p.progressPercentage >= 25000

\* The body of the component: the constants it computes and the elements of
\* the returned tree that are gated on them.
PlantVisualization(raw) ==
    LET p == Defaults(raw)
        stage == getStage(p.progressPercentage)
    IN  [stage |-> stage,
         sizeClasses |-> getSizeClasses(p),
         plantHeight |-> getPlantHeight(p),
         plantColor |-> getPlantColor(p),
         stemHeight |-> stemHeight(p),
         leafCount |-> leafCount(p),
         stem |-> stemShown(stage),
         leaves |-> ArrayFrom(leafCount(p)),
         flowerCenter |-> flowerCenterShown(stage),
         petals |-> IF petalsShown(stage) THEN petalAngles ELSE {},
         fruit |-> fruitShown(stage),
         seed |-> seedShown(stage),
         sprout |-> sproutShown(stage),
         sparkles |-> IF sparklesShown(p) THEN ArrayFrom(3) ELSE {},
         label |-> Round(p.progressPercentage)]

Blank ==
    [stage |-> "", sizeClasses |-> "", plantHeight |-> 0, plantColor |-> "",
     stemHeight |-> 0, leafCount |-> 0, stem |-> FALSE, leaves |-> {},
     flowerCenter |-> FALSE, petals |-> {}, fruit |-> FALSE, seed |-> FALSE,
     sprout |-> FALSE, sparkles |-> {}, label |-> 0]

\* checkDataRetention before it is called, on an empty database.
RetentionIdle ==
    /\ drPc = "idle"
    /\ drDb = [sessions |-> {}, deletedUsers |-> {}, savingGoals |-> {}, childProfiles |-> {}]
    /\ drIssues = << >>
    /\ drCaught = FALSE
    /\ drDisconnected = FALSE
    /\ drExit = << >>

\* A CanaryMetricsChecker as its constructor leaves it.
CanaryIdle ==
    /\ cmPc = "idle"
    /\ cmMetrics = [errorRate |-> 0, responseTime |-> 0, throughput |-> 0, availability |-> 0]
    /\ cmResult = << >>
    /\ cmExit = << >>

\* The health checker before runAllChecks is called.
HealthIdle ==
    /\ hcPc = "idle"
    /\ hcIndex = 1
    /\ hcResults = [passed |-> 0, failed |-> 0, total |-> 0, checks |-> << >>]
    /\ hcApi = << >>
    /\ hcExit = << >>

Init ==
    /\ props \in [progressPercentage : Percentages, plantType : PlantTypes, size : Sizes]
    /\ pc = "mounted"
    /\ view = Blank
    /\ HealthIdle
    /\ RetentionIdle
    /\ CanaryIdle

\* The framework calls the component with the current props.
Render ==
    /\ view' = PlantVisualization(props)
    /\ pc' = "rendered"
    /\ UNCHANGED <<props, notPlantVars>>

Next == Render

Spec == Init /\ [][Next]_vars

(***************************************************************************)
(* HealthChecker (scripts/health-check.js).  Status codes are written as   *)
(* strings, so that a status can be compared with the 'ERROR' that takes   *)
(* its place when the request is rejected.                                 *)
(***************************************************************************)

\* The names of healthChecks, in the order of the array.
CheckNames ==
    <<"Application Startup", "Database Connection", "API Endpoints",
      "Static Assets", "Memory Usage", "Response Time">>

ApiEndpointPaths == <<"/api/health", "/api/goals", "/api/plants">>

StaticAssetPaths == <<"/favicon.ico", "/_next/static/css", "/_next/static/js">>

\* How a makeRequest promise settles: resolved with the status code of the
\* response, or rejected by a request error or by the timeout.
StatusCodes == {"200", "404", "302", "500"}

RequestOutcomes ==
    [kind : {"response"}, statusCode : StatusCodes]
        \cup [kind : {"error", "timeout"}, statusCode : {""}]

Rejected(o) == o.kind # "response"

\* Date.now() - start after the request, in ms.
ResponseTimes == {150, 1999, 2000, 2500}

\* process.memoryUsage(): heapUsed and heapTotal in KiB, or the call throws
\* (the lookup of the resident set size can fail).
MemoryReadings ==
    [throws : {FALSE},
     heap : {<<40000, 102400>>, <<80000, 102400>>, <<81510, 102400>>, <<300, 400>>}]
        \cup [throws : {TRUE}, heap : {<<0, 0>>}]

\* Math.round(bytes / 1024 / 1024) for a size given in KiB.
RoundMB(kib) == (kib + 512) \div 1024

checkApplicationStartup(o) ==
    IF Rejected(o) THEN [success |-> FALSE]
    ELSE IF o.statusCode = "200" THEN [success |-> TRUE]
    ELSE [success |-> FALSE]

checkDatabaseConnection == [success |-> TRUE]

\* The entry checkApiEndpoints pushes for one endpoint.
endpointResult(endpoint, o) ==
    IF Rejected(o) THEN [endpoint |-> endpoint, status |-> "ERROR"]
    ELSE [endpoint |-> endpoint, status |-> o.statusCode]

\* Faulty variant of isFailedEndpoint: only a 200 counts as responding.
isFailedEndpoint_only200(r) == r.status # "200"

\* The filter of checkApiEndpoints.
isFailedEndpoint(r) == r.status # "200" /\ r.status # "404"

failedEndpoints(results) == SelectSeq(results, isFailedEndpoint)

\* What checkApiEndpoints returns once every endpoint has its entry.
apiEndpointsResult(results) ==
    IF Len(failedEndpoints(results)) = 0 THEN [success |-> TRUE]
    ELSE [success |-> FALSE]

checkStaticAssets == [success |-> TRUE]

checkMemoryUsage(m) ==
    LET heapUsed == RoundMB(m.heap[1])
        heapTotal == RoundMB(m.heap[2])
        \* (heapUsed / heapTotal) * 100 < 80; NaN and Infinity are not < 80.
        isHealthy == heapTotal > 0 /\ heapUsed * 100 < 80 * heapTotal
    IN  [success |-> isHealthy]

checkResponseTime(o, responseTime) ==
    IF Rejected(o) THEN [success |-> FALSE]
    ELSE [success |-> responseTime < 2000]

\* The try block of the loop body after the check returned result.
pushResult(results, name, result) ==
    [passed |-> IF result.success THEN results.passed + 1 ELSE results.passed,
     failed |-> IF result.success THEN results.failed ELSE results.failed + 1,
     total |-> results.total + 1,
     checks |-> Append(results.checks,
                       [name |-> name,
                        status |-> IF result.success THEN "PASSED" ELSE "FAILED"])]

\* Faulty variant of pushError: the error is not counted in total.
pushError_noTotal(results, name) ==
    [passed |-> results.passed,
     failed |-> results.failed + 1,
     total |-> results.total,
     checks |-> Append(results.checks, [name |-> name, status |-> "ERROR"])]

\* The catch block of the loop body.
pushError(results, name) ==
    [passed |-> results.passed,
     failed |-> results.failed + 1,
     total |-> results.total + 1,
     checks |-> Append(results.checks, [name |-> name, status |-> "ERROR"])]

\* Faulty variant of shouldExit: one failure is tolerated.
shouldExit_tolerant(results) == results.failed > 1

\* The condition under which runAllChecks calls process.exit(1).
shouldExit(results) == results.failed > 0

\* The loop is at the check called name.
AtCheck(name) ==
    /\ hcPc = "loop"
    /\ hcIndex <= Len(CheckNames)
    /\ CheckNames[hcIndex] = name

\* One iteration of the loop ends with result recorded.
Recorded(result) ==
    /\ hcResults' = pushResult(hcResults, CheckNames[hcIndex], result)
    /\ hcIndex' = hcIndex + 1

runAllChecks ==
    /\ hcPc = "idle"
    /\ hcPc' = "loop"
    /\ hcResults' = [passed |-> 0, failed |-> 0, total |-> 0, checks |-> << >>]
    /\ hcIndex' = 1
    /\ UNCHANGED <<hcApi, hcExit, notHealthVars>>

RunApplicationStartup ==
    /\ AtCheck("Application Startup")
    /\ \E o \in RequestOutcomes : Recorded(checkApplicationStartup(o))
    /\ UNCHANGED <<hcPc, hcApi, hcExit, notHealthVars>>

RunDatabaseConnection ==
    /\ AtCheck("Database Connection")
    /\ Recorded(checkDatabaseConnection)
    /\ UNCHANGED <<hcPc, hcApi, hcExit, notHealthVars>>

\* One iteration of the loop of checkApiEndpoints: the request to the next
\* endpoint settles and its entry is pushed.
ProbeApiEndpoint ==
    /\ AtCheck("API Endpoints")
    /\ Len(hcApi) < Len(ApiEndpointPaths)
    /\ \E o \in RequestOutcomes :
           hcApi' = Append(hcApi, endpointResult(ApiEndpointPaths[Len(hcApi) + 1], o))
    /\ UNCHANGED <<hcPc, hcIndex, hcResults, hcExit, notHealthVars>>

\* checkApiEndpoints returns after its loop, and the iteration ends.
FinishApiEndpoints ==
    /\ AtCheck("API Endpoints")
    /\ Len(hcApi) = Len(ApiEndpointPaths)
    /\ Recorded(apiEndpointsResult(hcApi))
    /\ UNCHANGED <<hcPc, hcApi, hcExit, notHealthVars>>

RunStaticAssets ==
    /\ AtCheck("Static Assets")
    /\ \E os \in [1..Len(StaticAssetPaths) -> RequestOutcomes] : Recorded(checkStaticAssets)
    /\ UNCHANGED <<hcPc, hcApi, hcExit, notHealthVars>>

RunMemoryUsage ==
    /\ AtCheck("Memory Usage")
    /\ \E m \in MemoryReadings :
           IF m.throws
           THEN /\ hcResults' = pushError(hcResults, CheckNames[hcIndex])
                /\ hcIndex' = hcIndex + 1
           ELSE Recorded(checkMemoryUsage(m))
    /\ UNCHANGED <<hcPc, hcApi, hcExit, notHealthVars>>

RunResponseTime ==
    /\ AtCheck("Response Time")
    /\ \E o \in RequestOutcomes, t \in ResponseTimes : Recorded(checkResponseTime(o, t))
    /\ UNCHANGED <<hcPc, hcApi, hcExit, notHealthVars>>

\* The loop is over: this.printSummary(results).
printSummary ==
    /\ hcPc = "loop"
    /\ hcIndex > Len(CheckNames)
    /\ hcPc' = "printed"
    /\ UNCHANGED <<hcIndex, hcResults, hcApi, hcExit, notHealthVars>>

\* After the summary: process.exit(1), or return results.
ExitOrReturn ==
    /\ hcPc = "printed"
    /\ IF shouldExit(hcResults)
       THEN hcPc' = "exited" /\ hcExit' = <<1>>
       ELSE hcPc' = "returned" /\ hcExit' = hcExit
    /\ UNCHANGED <<hcIndex, hcResults, hcApi, notHealthVars>>

\* The plant component with fixed props, not rendered.
PlantIdle ==
    /\ props = [progressPercentage |-> 0, plantType |-> Undefined, size |-> Undefined]
    /\ pc = "mounted"
    /\ view = Blank

InitHealth == PlantIdle /\ HealthIdle /\ RetentionIdle /\ CanaryIdle

NextHealth ==
    \/ runAllChecks
    \/ RunApplicationStartup
    \/ RunDatabaseConnection
    \/ ProbeApiEndpoint
    \/ FinishApiEndpoints
    \/ RunStaticAssets
    \/ RunMemoryUsage
    \/ RunResponseTime
    \/ printSummary
    \/ ExitOrReturn

SpecHealth == InitHealth /\ [][NextHealth]_vars

(***************************************************************************)
(* checkDataRetention (scripts/check-data-retention.js).  Dates are kept   *)
(* as whole days: a row of sessions, deletedUsers or savingGoals is the    *)
(* number of days from its date (expires, deletedAt, completedAt) to now;  *)
(* a row of childProfiles is the number of days from its birthDate to the  *)
(* day 18 years before today.                                              *)
(***************************************************************************)

\* How many days past a limit the oldest rows drawn are.
MaxOverdue == 1

\* The policies the function reads, in days.
RETENTION_POLICIES == [user_sessions |-> 30, plant_data |-> 365, deleted_user_data |-> 30]

\* Ages from the limit itself (not yet past it) to MaxOverdue days past it.
AgesFrom(limit) == limit..(limit + MaxOverdue)

Databases ==
    [sessions : SUBSET AgesFrom(RETENTION_POLICIES.user_sessions),
     deletedUsers : SUBSET AgesFrom(RETENTION_POLICIES.deleted_user_data),
     savingGoals : SUBSET [status : {"COMPLETED", "ACTIVE"},
                           age : AgesFrom(RETENTION_POLICIES.plant_data)],
     childProfiles : SUBSET AgesFrom(0)]

\* where: { date: { lt: now - days } }: the date lies more than days back.
olderThan(age, days) == age > days

oldSessions(db) ==
    Cardinality({a \in db.sessions : olderThan(a, RETENTION_POLICIES.user_sessions)})

deletedUsers(db) ==
    Cardinality({a \in db.deletedUsers : olderThan(a, RETENTION_POLICIES.deleted_user_data)})

completedGoals(db) ==
    Cardinality({g \in db.savingGoals :
                    g.status = "COMPLETED" /\ olderThan(g.age, RETENTION_POLICIES.plant_data)})

\* birthDate lt the day 18 years before today.
childProfiles(db) == {c \in db.childProfiles : c > 0}

\* if (count > 0) issues.push({ type, count, severity, ... })
pushIssue(issues, type, count, severity) ==
    IF count > 0
    THEN Append(issues, [type |-> type, count |-> count, severity |-> severity])
    ELSE issues

\* Faulty variant of hasHighSeverity: any issue counts.
hasHighSeverity_any(issues) == Len(issues) > 0

hasHighSeverity(issues) == \E k \in 1..Len(issues) : issues[k].severity = "high"

\* The code the report branch passes to process.exit.
reportExitCode(issues) ==
    IF Len(issues) = 0 THEN 0
    ELSE IF hasHighSeverity(issues) THEN 1 ELSE 0

checkDataRetention ==
    /\ drPc = "idle"
    /\ drPc' = "sessions"
    /\ drIssues' = << >>
    /\ UNCHANGED <<drDb, drCaught, drDisconnected, drExit, notRetentionVars>>

QuerySessions ==
    /\ drPc = "sessions"
    /\ drIssues' = pushIssue(drIssues, "user_sessions", oldSessions(drDb), "medium")
    /\ drPc' = "deletedUsers"
    /\ UNCHANGED <<drDb, drCaught, drDisconnected, drExit, notRetentionVars>>

QueryDeletedUsers ==
    /\ drPc = "deletedUsers"
    /\ drIssues' = pushIssue(drIssues, "deleted_user_data", deletedUsers(drDb), "high")
    /\ drPc' = "goals"
    /\ UNCHANGED <<drDb, drCaught, drDisconnected, drExit, notRetentionVars>>

QueryCompletedGoals ==
    /\ drPc = "goals"
    /\ drIssues' = pushIssue(drIssues, "plant_data", completedGoals(drDb), "medium")
    /\ drPc' = "children"
    /\ UNCHANGED <<drDb, drCaught, drDisconnected, drExit, notRetentionVars>>

QueryChildProfiles ==
    /\ drPc = "children"
    /\ drIssues' = pushIssue(drIssues, "child_profiles",
                             Cardinality(childProfiles(drDb)), "high")
    /\ drPc' = "report"
    /\ UNCHANGED <<drDb, drCaught, drDisconnected, drExit, notRetentionVars>>

\* The query awaited is rejected: the catch block logs the error and calls
\* process.exit(1).  process.exit ends the process where it is called; the
\* finally block is not reached.
QueryRejected ==
    /\ drPc \in {"sessions", "deletedUsers", "goals", "children"}
    /\ drCaught' = TRUE
    /\ drExit' = <<1>>
    /\ drPc' = "exited"
    /\ UNCHANGED <<drDb, drIssues, drDisconnected, notRetentionVars>>

\* The report: process.exit(0) without issues, else the issues are listed
\* and process.exit(hasHighSeverity ? 1 : 0).  process.exit ends the process
\* where it is called; the finally block is not reached.
GenerateReport ==
    /\ drPc = "report"
    /\ drExit' = <<reportExitCode(drIssues)>>
    /\ drPc' = "exited"
    /\ UNCHANGED <<drDb, drIssues, drCaught, drDisconnected, notRetentionVars>>

InitRetention ==
    /\ PlantIdle
    /\ HealthIdle
    /\ CanaryIdle
    /\ drPc = "idle"
    /\ drDb \in Databases
    /\ drIssues = << >>
    /\ drCaught = FALSE
    /\ drDisconnected = FALSE
    /\ drExit = << >>

NextRetention ==
    \/ checkDataRetention
    \/ QuerySessions
    \/ QueryDeletedUsers
    \/ QueryCompletedGoals
    \/ QueryChildProfiles
    \/ QueryRejected
    \/ GenerateReport

SpecRetention == InitRetention /\ [][NextRetention]_vars

(***************************************************************************)
(* CanaryMetricsChecker (scripts/check-data-retention.js).  errorRate,     *)
(* throughput and availability are kept in tenths (995 = 99.5),            *)
(* responseTime in ms.                                                     *)
(***************************************************************************)

thresholds ==
    [maxErrorRate |-> 50, maxResponseTime |-> 2000, minThroughput |-> 100,
     minAvailability |-> 995]

\* The values this.metrics is drawn from: around each threshold, the 0 of
\* the constructor, and the ends of the ranges collectMetrics draws from.
MetricValues ==
    [errorRate : {0, 49, 50, 51, 99},
     responseTime : {0, 500, 1499, 2000, 2001},
     throughput : {0, 99, 100, 150, 249},
     availability : {0, 990, 994, 995, 999}]

\* What collectMetrics can assign: errorRate in [0, 10), responseTime in
\* [500, 1500), throughput in [15, 25), availability in [99, 100).
MockMetrics ==
    {m \in MetricValues :
        /\ 0 <= m.errorRate /\ m.errorRate < 100
        /\ 500 <= m.responseTime /\ m.responseTime < 1500
        /\ 150 <= m.throughput /\ m.throughput < 250
        /\ 990 <= m.availability /\ m.availability < 1000}

\* Faulty variant of errorRatePassed: the threshold itself fails.
errorRatePassed_strict(m) == m.errorRate < thresholds.maxErrorRate

errorRatePassed(m) == m.errorRate <= thresholds.maxErrorRate

responseTimePassed(m) == m.responseTime <= thresholds.maxResponseTime

throughputPassed(m) == m.throughput >= thresholds.minThroughput

availabilityPassed(m) == m.availability >= thresholds.minAvailability

evaluateMetrics(m) ==
    LET errorRateCheck ==
            [metric |-> "Error Rate", value |-> m.errorRate,
             threshold |-> thresholds.maxErrorRate, passed |-> errorRatePassed(m)]
        responseTimeCheck ==
            [metric |-> "Response Time", value |-> m.responseTime,
             threshold |-> thresholds.maxResponseTime, passed |-> responseTimePassed(m)]
        throughputCheck ==
            [metric |-> "Throughput", value |-> m.throughput,
             threshold |-> thresholds.minThroughput, passed |-> throughputPassed(m)]
        availabilityCheck ==
            [metric |-> "Availability", value |-> m.availability,
             threshold |-> thresholds.minAvailability, passed |-> availabilityPassed(m)]
        \* results.passed starts true and is cleared by each failed check.
        p1 == IF ~errorRateCheck.passed THEN FALSE ELSE TRUE
        p2 == IF ~responseTimeCheck.passed THEN FALSE ELSE p1
        p3 == IF ~throughputCheck.passed THEN FALSE ELSE p2
        p4 == IF ~availabilityCheck.passed THEN FALSE ELSE p3
    IN  [passed |-> p4,
         checks |-> <<errorRateCheck, responseTimeCheck, throughputCheck,
                      availabilityCheck>>]

\* evaluateMetrics called on the checker as it is, outside checkMetrics.
EvaluateMetrics ==
    /\ cmPc = "idle"
    /\ cmResult' = <<evaluateMetrics(cmMetrics)>>
    /\ cmPc' = "evaluated"
    /\ UNCHANGED <<cmMetrics, cmExit, notCanaryVars>>

\* checkMetrics up to the end of await this.collectMetrics().
collectMetrics ==
    /\ cmPc = "idle"
    /\ cmMetrics' \in MockMetrics
    /\ cmPc' = "collected"
    /\ UNCHANGED <<cmResult, cmExit, notCanaryVars>>

\* The rest of checkMetrics: evaluate, log, then process.exit(1) or return.
checkMetrics ==
    /\ cmPc = "collected"
    /\ LET result == evaluateMetrics(cmMetrics)
       IN  /\ cmResult' = <<result>>
           /\ IF ~result.passed
              THEN cmExit' = <<1>> /\ cmPc' = "exited"
              ELSE cmExit' = cmExit /\ cmPc' = "returned"
    /\ UNCHANGED <<cmMetrics, notCanaryVars>>

InitCanary ==
    /\ PlantIdle
    /\ HealthIdle
    /\ RetentionIdle
    /\ cmPc = "idle"
    /\ cmMetrics \in MetricValues
    /\ cmResult = << >>
    /\ cmExit = << >>

NextCanary ==
    \/ EvaluateMetrics
    \/ collectMetrics
    \/ checkMetrics

SpecCanary == InitCanary /\ [][NextCanary]_vars

(***************************************************************************)
(* Properties of the stage mapping and the derived parameters.             *)
(***************************************************************************)

Rendered == pc = "rendered"

Pct == props.progressPercentage

Stages == {"seed", "sprout", "small", "medium", "large", "flowering", "fruiting"}

\* lo <= x < hi: a band with its lower bound included and its upper excluded.
InBand(x, lo, hi) == lo <= x /\ x < hi

\* C1: the stage rendered is the one the threshold table gives: seed below
\* 10, sprout in [10,25), small in [25,50), medium in [50,75), large in
\* [75,95), flowering in [95,100), fruiting from 100 on; in particular
\* 24.9 -> sprout, 25 -> small, 95 -> flowering, 100 -> fruiting.
C1_StageTable ==
    Rendered =>
        /\ view.stage = "seed" <=> Pct < 10000
        /\ view.stage = "sprout" <=> InBand(Pct, 10000, 25000)
        /\ view.stage = "small" <=> InBand(Pct, 25000, 50000)
        /\ view.stage = "medium" <=> InBand(Pct, 50000, 75000)
        /\ view.stage = "large" <=> InBand(Pct, 75000, 95000)
        /\ view.stage = "flowering" <=> InBand(Pct, 95000, 100000)
        /\ view.stage = "fruiting" <=> Pct >= 100000
        /\ Pct = 24900 => view.stage = "sprout"
        /\ Pct = 25000 => view.stage = "small"
        /\ Pct = 95000 => view.stage = "flowering"
        /\ Pct = 100000 => view.stage = "fruiting"

C1_Witness == Rendered /\ Pct = 25000 /\ view.stage = "small"

StageRank(s) ==
    CASE s = "seed" -> 0
      [] s = "sprout" -> 1
      [] s = "small" -> 2
      [] s = "medium" -> 3
      [] s = "large" -> 4
      [] s = "flowering" -> 5
      [] s = "fruiting" -> 6

\* The props of this state with another progressPercentage.
PropsAtPct(q) == Defaults([props EXCEPT !.progressPercentage = q])

\* What the component computes for the props of this state with another
\* plantType.
ViewWithType(t) == PlantVisualization([props EXCEPT !.plantType = t])

\* C2: the stage is monotone in the percentage: every smaller percentage
\* gives a stage that is no later in the order seed < sprout < small <
\* medium < large < flowering < fruiting, every larger one a stage no earlier.
C2_StageMonotone ==
    Rendered =>
        LET here == StageRank(view.stage)
        IN  \A q \in Percentages :
                /\ q <= Pct => StageRank(getStage(q)) <= here
                /\ Pct <= q => here <= StageRank(getStage(q))

C2_Witness ==
    /\ Rendered
    /\ view.stage = "large"
    /\ \E q \in Percentages : q < Pct /\ getStage(q) = "medium"
    /\ \E q \in Percentages : q > Pct /\ getStage(q) = "flowering"

\* C3: leafCount is floor(percentage / 20), the integer n with
\* 20 n <= percentage < 20 (n + 1), uncapped above 100; it is non-decreasing
\* in the percentage; leafCount(0) = 0, leafCount(100) = 5, leafCount(150) = 7.
C3_LeafCount ==
    Rendered =>
        /\ view.leafCount * 20000 <= Pct
        /\ Pct < (view.leafCount + 1) * 20000
        /\ \A q \in Percentages : q <= Pct => leafCount(PropsAtPct(q)) <= view.leafCount
        /\ Pct = 0 => view.leafCount = 0
        /\ Pct = 100000 => view.leafCount = 5
        /\ Pct = 150000 => view.leafCount = 7

C3_Witness == Rendered /\ Pct = 150000 /\ view.leafCount = 7

\* C4: plantHeight is max(percentage * 0.8, 5); hence it is at least 5 for
\* every percentage >= 0, and exactly 5 at percentage 0.
C4_PlantHeight ==
    Rendered =>
        /\ view.plantHeight >= Pct * 8
        /\ view.plantHeight >= 50000
        /\ view.plantHeight = Pct * 8 \/ view.plantHeight = 50000
        /\ Pct = 0 => view.plantHeight = 50000

C4_Witness == Rendered /\ Pct = 0 /\ view.plantHeight = 50000

\* C5: stemHeight is max(plantHeight * 0.6, 10); hence it is at least 10 for
\* every percentage >= 0.
C5_StemHeight ==
    Rendered =>
        /\ view.stemHeight >= view.plantHeight * 6
        /\ view.stemHeight >= 1000000
        /\ view.stemHeight = view.plantHeight * 6 \/ view.stemHeight = 1000000

C5_Witness ==
    Rendered /\ Pct >= 0 /\ view.plantHeight * 6 < 1000000 /\ view.stemHeight = 1000000

NamedTypes == {"rose", "tulip", "daisy"}

\* C6: the colour is a fixed lookup by plantType: rose, tulip and daisy have
\* each their own colour, and every other plantType gives the colour that is
\* rendered when no plantType is supplied.
C6_ColorLookup ==
    Rendered =>
        /\ props.plantType = "rose" => view.plantColor = "#ff6b9d"
        /\ props.plantType = "tulip" => view.plantColor = "#c44569"
        /\ props.plantType = "daisy" => view.plantColor = "#f8b500"
        /\ props.plantType \in NamedTypes =>
               /\ view.plantColor # ViewWithType(Undefined).plantColor
               /\ \A t \in NamedTypes \ {props.plantType} :
                      view.plantColor # ViewWithType(t).plantColor
        /\ props.plantType \notin NamedTypes =>
               view.plantColor = ViewWithType(Undefined).plantColor

C6_Witness ==
    /\ Rendered
    /\ props.plantType = "cactus"
    /\ view.plantColor = ViewWithType(Undefined).plantColor
    /\ view.plantColor # ViewWithType("rose").plantColor

\* C7: the fruit marker is rendered exactly when the stage is fruiting, that
\* is exactly when the percentage is at least 100.
C7_FruitMarker ==
    Rendered =>
        /\ view.fruit <=> view.stage = "fruiting"
        /\ view.fruit <=> Pct >= 100000

C7_Witness == Rendered /\ Pct = 100000 /\ view.fruit

\* C8 as stated: the petals are rendered exactly when the stage is flowering,
\* that is exactly for the percentages in [95, 100).
C8_PetalsOnlyFlowering ==
    Rendered =>
        /\ view.petals # {} <=> view.stage = "flowering"
        /\ view.petals # {} <=> InBand(Pct, 95000, 100000)

\* C8 as amended: the 8 petals, at 45-degree increments, are rendered exactly
\* when the stage is flowering or fruiting, that is exactly when the
\* percentage is at least 95.
C8_PetalsFromFlowering ==
    Rendered =>
        /\ view.petals # {} <=> view.stage \in {"flowering", "fruiting"}
        /\ view.petals # {} <=> Pct >= 95000
        /\ view.petals # {} =>
               view.petals = {0, 45, 90, 135, 180, 225, 270, 315}

C8_Witness ==
    /\ Rendered
    /\ view.stage = "fruiting"
    /\ Cardinality(view.petals) = 8

C10_TypeIndependent ==
    Rendered =>
        \A t \in PlantTypes :
            LET other == ViewWithType(t)
            IN  /\ other.stage = view.stage
                /\ other.plantHeight = view.plantHeight
                /\ other.stemHeight = view.stemHeight
                /\ other.leafCount = view.leafCount

C10_Witness ==
    /\ Rendered
    /\ props.plantType = "rose"
    /\ ViewWithType("tulip").plantColor # view.plantColor
    /\ ViewWithType("tulip").stemHeight = view.stemHeight
    /\ view.stemHeight > 1000000

\* C17 as stated: the minimum of plantHeight never shows: stemHeight is
\* max(percentage * 0.48, 10), what it would be without that minimum, and it
\* is 10 for every percentage below 20.84, so in the whole seed stage.
C17_StemTenBelow2084 ==
    Rendered =>
        /\ view.stemHeight = Max(Pct * 48, 1000000)
        /\ Pct < 20840 => view.stemHeight = 1000000
        /\ view.stage = "seed" => view.stemHeight = 1000000

\* C17 as amended: the minimum of plantHeight never shows: stemHeight is
\* max(percentage * 0.48, 10), what it would be without that minimum, and it
\* is 10 exactly for the percentages up to 10 / 0.48 = 20.8333..., so in the
\* whole seed stage.
C17_StemTenUpToKnee ==
    Rendered =>
        /\ view.stemHeight = Max(Pct * 48, 1000000)
        /\ view.stemHeight = 1000000 <=> Pct * 48 <= 1000000
        /\ Pct <= 20833 => view.stemHeight = 1000000
        /\ Pct >= 20834 => view.stemHeight > 1000000
        /\ view.stage = "seed" => view.stemHeight = 1000000

C17_Witness ==
    /\ Rendered
    /\ Pct = 6200
    /\ view.plantHeight = 50000
    /\ view.plantHeight > Pct * 8
    /\ view.stemHeight = 1000000

(***************************************************************************)
(* Properties of HealthChecker.                                            *)
(***************************************************************************)

\* The number of entries of checks whose status is in S.
CountStatus(checks, S) == Cardinality({k \in 1..Len(checks) : checks[k].status \in S})

HealthEnded == hcPc \in {"printed", "exited", "returned"}

\* C11: the six checks run in the order of the array; a failed or throwing
\* check does not stop the loop; each check adds one entry to results.checks;
\* after every completed check passed + failed = total = the number of
\* entries, which is 6 when the loop is over.
C11_AllChecksInOrder ==
    /\ hcResults.passed + hcResults.failed = hcResults.total
    /\ hcResults.total = Len(hcResults.checks)
    /\ hcResults.passed = CountStatus(hcResults.checks, {"PASSED"})
    /\ hcResults.failed = CountStatus(hcResults.checks, {"FAILED", "ERROR"})
    /\ \A k \in 1..Len(hcResults.checks) : hcResults.checks[k].name = CheckNames[k]
    /\ hcPc = "loop" => hcIndex = Len(hcResults.checks) + 1 /\ ENABLED NextHealth
    /\ HealthEnded => hcResults.total = 6 /\ Len(hcResults.checks) = 6

C11_Witness ==
    /\ HealthEnded
    /\ hcResults.checks[1].status = "FAILED"
    /\ hcResults.checks[5].status = "ERROR"
    /\ hcResults.checks[6].status = "PASSED"
    /\ hcResults.total = 6

\* C12: the process exits, with code 1, exactly when a check ended FAILED or
\* ERROR (results.failed > 0), and only after the six checks ran and the
\* summary was printed; when every check passed, runAllChecks returns without
\* exiting.
C12_ExitIffFailed ==
    /\ [](/\ hcExit # << >> => hcExit = <<1>>
          /\ hcPc = "exited" <=> hcExit = <<1>>
          /\ hcPc = "exited" =>
                 /\ hcResults.failed > 0
                 /\ CountStatus(hcResults.checks, {"FAILED", "ERROR"}) > 0
                 /\ hcResults.total = 6
          /\ hcPc = "returned" =>
                 /\ hcResults.failed = 0
                 /\ CountStatus(hcResults.checks, {"PASSED"}) = 6
                 /\ hcExit = << >>)
    /\ [][hcExit' # hcExit => hcPc = "printed" /\ hcIndex > Len(CheckNames)]_vars

C12_Witness ==
    /\ hcPc = "exited"
    /\ hcExit = <<1>>
    /\ hcResults.failed = 1
    /\ hcResults.passed = 5

RespondingStatus == {"200", "404"}

\* The API Endpoints check has been recorded in results.checks.
ApiRecorded == Len(hcResults.checks) >= 3

\* C13: checkApiEndpoints succeeds exactly when each of /api/health,
\* /api/goals and /api/plants answered 200 or 404; another status code, a
\* request error or a timeout on any of them fails the check; the three
\* endpoints are probed, in order, whatever the earlier ones gave.
C13_ApiEndpoints ==
    /\ \A k \in 1..Len(hcApi) : hcApi[k].endpoint = ApiEndpointPaths[k]
    /\ AtCheck("API Endpoints") /\ Len(hcApi) < 3 =>
           ENABLED ProbeApiEndpoint /\ ~ENABLED FinishApiEndpoints
    /\ ApiRecorded =>
           /\ Len(hcApi) = 3
           /\ hcResults.checks[3].name = "API Endpoints"
           /\ hcResults.checks[3].status \in {"PASSED", "FAILED"}
           /\ hcResults.checks[3].status = "PASSED" <=>
                  \A k \in 1..3 : hcApi[k].status \in RespondingStatus

C13_Witness ==
    /\ ApiRecorded
    /\ hcApi[1].status = "ERROR"
    /\ hcApi[2].status = "404"
    /\ hcApi[3].status = "200"
    /\ hcResults.checks[3].status = "FAILED"

(***************************************************************************)
(* Properties of checkDataRetention.                                       *)
(***************************************************************************)

\* The database holds what makes a high-severity issue: a deleted-user row
\* past the 30 days of grace, or a child profile whose 18th birthday lies
\* before today.
HighSeverityData ==
    \/ \E a \in drDb.deletedUsers : a > 30
    \/ \E c \in drDb.childProfiles : c > 0

\* The database holds what makes a medium-severity issue: a session expired
\* more than 30 days ago, or a goal completed more than 365 days ago.
MediumSeverityData ==
    \/ \E a \in drDb.sessions : a > 30
    \/ \E g \in drDb.savingGoals : g.status = "COMPLETED" /\ g.age > 365

C16_DisconnectBeforeExit == drExit # << >> => drDisconnected

(***************************************************************************)
(* Properties of CanaryMetricsChecker.                                     *)
(***************************************************************************)

====
